---- MODULE Spec2Model ----
(***************************************************************************)
(* The recurring-transaction scheduler of penny-fincher                    *)
(* (src/src/lib/googleSheets.ts, class GoogleSheetsService): the Recurring *)
(* sheet, the Transactions sheet, the in-memory template cache, the clock, *)
(* and the asynchronous operations over them.                              *)
(*                                                                         *)
(* Dates.  A date string "YYYY-MM-DD" is modelled by its day number (days  *)
(* since 1970-01-01), the empty string by NoDate.  A JavaScript Date (an   *)
(* instant) is a record [d, h]: d is the UTC day of the instant and h its  *)
(* place in that UTC day: 0 is UTC midnight exactly (what new Date("Y-M-D")*)
(* yields), 1 is before and 2 after the moment at which the browser's time *)
(* zone changes its calendar date.  The zone is -1 (west of UTC), 0 (UTC)  *)
(* or 1 (east of UTC), with a fixed offset (no daylight-saving change).    *)
(***************************************************************************)
EXTENDS Integers, Sequences, FiniteSets, TLC

---------------------------------------------------------------------------
(* Calendar arithmetic of the JavaScript Date object.                      *)

NoDate == -1
Undef == -1

IsLeap(y) == (y % 4 = 0 /\ y % 100 # 0) \/ y % 400 = 0

\* new Date(year, month + 1, 0).getDate(), month in 0..11
getDaysInMonth(year, month) ==
  IF month = 1 THEN (IF IsLeap(year) THEN 29 ELSE 28)
  ELSE IF month \in {3, 5, 8, 10} THEN 30 ELSE 31

\* day number of January 1st of year y
YearStart(y) ==
  365 * (y - 1970) + ((y - 1969) \div 4) - ((y - 1901) \div 100)
    + ((y - 1601) \div 400)

\* days from January 1st to the first of each month of a common year
CumulativeDays == <<0, 31, 59, 90, 120, 151, 181, 212, 243, 273, 304, 334>>

\* days from January 1st of y to the first of month m (0..11)
MonthStart(y, m) ==
  CumulativeDays[m + 1] + (IF m > 1 /\ IsLeap(y) THEN 1 ELSE 0)

\* MakeDay of ECMAScript: month and day may overflow and are carried over
MakeDay(y, m, day) ==
  YearStart(y + (m \div 12)) + MonthStart(y + (m \div 12), m % 12) + day - 1

\* YearFromTime.  (The calendar operators are written with a local function
\* of the argument, so that the argument is evaluated once.)
YearOf(n) ==
  LET YearFromTime[t \in {n}] ==
        LET y == 1970 + (t \div 365)
        IN  IF YearStart(y) <= t THEN y ELSE y - 1
  IN  YearFromTime[n]

\* MonthFromTime
MonthOf(n) ==
  LET MonthFromTime[t \in {n}] ==
        LET InYear[y \in {YearOf(t)}] ==
              CHOOSE m \in 0..11 :
                /\ MonthStart(y, m) <= t - YearStart(y)
                /\ t - YearStart(y) < MonthStart(y, m) + getDaysInMonth(y, m)
        IN  InYear[YearOf(t)]
  IN  MonthFromTime[n]

\* DateFromTime
DateOf(n) ==
  LET DateFromTime[t \in {n}] ==
        t - YearStart(YearOf(t)) - MonthStart(YearOf(t), MonthOf(t)) + 1
  IN  DateFromTime[n]

\* 1970-01-01 was a Thursday; 0 = Sunday
WeekDay(n) == (n + 4) % 7

\* the calendar date of an instant in the browser's zone, minus its UTC date
ZoneShift(z, h) ==
  IF z = -1 THEN (IF h = 2 THEN 0 ELSE -1)
  ELSE IF z = 1 THEN (IF h = 2 THEN 1 ELSE 0)
  ELSE 0

\* new Date("YYYY-MM-DD"): UTC midnight of that date
ParseDate(s) == [d |-> s, h |-> 0]

\* the local calendar day of an instant (getFullYear/getMonth/getDate)
LocalDay(z, t) == t.d + ZoneShift(z, t.h)

\* the instant with local calendar day L at the local time of day of t
AtLocalDay(z, t, L) == [d |-> L - ZoneShift(z, t.h), h |-> t.h]

\* Date.prototype.toISOString().split('T')[0]: the UTC date
ToISODate(t) == t.d

\* a < b on instants
DateLt(a, b) == a.d < b.d \/ (a.d = b.d /\ a.h < b.h)

\* t.setDate(t.getDate() + k)
AddDays(z, t, k) == AtLocalDay(z, t, LocalDay(z, t) + k)

\* t.setMonth(t.getMonth() + k)
AddMonths(z, t, k) ==
  LET L == LocalDay(z, t)
  IN  AtLocalDay(z, t, MakeDay(YearOf(L), MonthOf(L) + k, DateOf(L)))

\* t.setFullYear(t.getFullYear() + 1)
AddYear(z, t) ==
  LET L == LocalDay(z, t)
  IN  AtLocalDay(z, t, MakeDay(YearOf(L) + 1, MonthOf(L), DateOf(L)))

\* t.setDate(n)
SetDate(z, t, n) ==
  LET L == LocalDay(z, t)
  IN  AtLocalDay(z, t, MakeDay(YearOf(L), MonthOf(L), n))

Min(a, b) == IF a <= b THEN a ELSE b

\* t.setDate(Math.min(dayOfMonth, getDaysInMonth(t.getFullYear(), t.getMonth())))
ClampToDayOfMonth(z, t, dayOfMonth) ==
  LET Clamped[d \in {t}] ==
        LET L == LocalDay(z, d)
        IN  SetDate(z, d, Min(dayOfMonth, getDaysInMonth(YearOf(L), MonthOf(L))))
  IN  Clamped[t]

\* the day-of-week adjustment of the weekly and biweekly branches
SnapToDayOfWeek(z, t, dayOfWeek) ==
  LET Snapped[d \in {t}] ==
        LET currentDay == WeekDay(LocalDay(z, d))
            daysToAdd == (dayOfWeek - currentDay + 7) % 7
        IN  AddDays(z, d, daysToAdd)
  IN  Snapped[t]

\* a variant of the switch that moves to the anchor without adding a cycle
AdvanceWithoutCycle(z, nextDate, frequency, dayOfMonth, dayOfWeek) ==
  IF dayOfMonth # Undef THEN ClampToDayOfMonth(z, nextDate, dayOfMonth)
  ELSE IF dayOfWeek # Undef THEN SnapToDayOfWeek(z, nextDate, dayOfWeek)
  ELSE nextDate

\* the switch on frequency: one cycle added to nextDate
AdvanceOneCycle(z, nextDate, frequency, dayOfMonth, dayOfWeek) ==
  CASE frequency = "daily" -> AddDays(z, nextDate, 1)
    [] frequency = "weekly" ->
         IF dayOfWeek # Undef
         THEN SnapToDayOfWeek(z, AddDays(z, nextDate, 7), dayOfWeek)
         ELSE AddDays(z, nextDate, 7)
    [] frequency = "biweekly" ->
         IF dayOfWeek # Undef
         THEN SnapToDayOfWeek(z, AddDays(z, nextDate, 14), dayOfWeek)
         ELSE AddDays(z, nextDate, 14)
    [] frequency = "monthly" ->
         IF dayOfMonth # Undef
         THEN ClampToDayOfMonth(z, AddMonths(z, nextDate, 1), dayOfMonth)
         ELSE AddMonths(z, nextDate, 1)
    [] frequency = "quarterly" ->
         IF dayOfMonth # Undef
         THEN ClampToDayOfMonth(z, AddMonths(z, nextDate, 3), dayOfMonth)
         ELSE AddMonths(z, nextDate, 3)
    [] frequency = "yearly" ->
         IF dayOfMonth # Undef
         THEN ClampToDayOfMonth(z, AddYear(z, nextDate), dayOfMonth)
         ELSE AddYear(z, nextDate)
    [] OTHER -> AddMonths(z, nextDate, 1)

\* a variant that keeps a base date in the past
KeepBase(baseDate, today) == baseDate

\* a variant with the comparison reversed
CollapseReversed(baseDate, today) ==
  IF DateLt(today, baseDate) THEN today ELSE baseDate

\* if (nextDate < today) nextDate = today
CollapseToToday(baseDate, today) ==
  IF DateLt(baseDate, today) THEN today ELSE baseDate

\* calculateNextDueDate; z and today are the zone and the value of new Date().
\* The result is a date string (a day number) or undefined (NoDate).
calculateNextDueDate(z, today, frequency, startDate, dayOfMonth, dayOfWeek, lastProcessed) ==
  LET base == IF lastProcessed # NoDate THEN lastProcessed ELSE startDate
  IN  IF base = NoDate
      THEN NoDate
      ELSE LET Advanced[nextDate \in {CollapseToToday(ParseDate(base), today)}] ==
                 AdvanceOneCycle(z, nextDate, frequency, dayOfMonth, dayOfWeek)
           IN  ToISODate(Advanced[CollapseToToday(ParseDate(base), today)])

---------------------------------------------------------------------------
(* Bounds of the model.                                                    *)

\* the UTC day on which every behaviour starts: 2025-02-28, a Friday
StartDay == MakeDay(2025, 1, 28)
\* the clock advances over at most this many UTC days
MaxDays == 1
\* at most this many operations (invocations of
\* processDueRecurringTransactions, toggles) are started
MaxOps == 2

\* two invocations of processDueRecurringTransactions can be in flight
Procs == {1, 2}

---------------------------------------------------------------------------
(* The Recurring sheet: rows of 14 columns A..N, from row 2 on.            *)

Row(description, frequency, startDate, notes, dayOfMonth, dayOfWeek, endDate, lastProcessed, active) ==
  [description |-> description, frequency |-> frequency,
   category |-> "cat", subcategory |-> "sub", startDate |-> startDate,
   amountEUR |-> 10, amountUSD |-> Undef, account |-> "acct",
   notes |-> notes, dayOfMonth |-> dayOfMonth, dayOfWeek |-> dayOfWeek,
   endDate |-> endDate, lastProcessed |-> lastProcessed, active |-> active]

\* rows as addRecurringTransaction writes them
DailyRow == Row("rent", "daily", StartDay - 10, "", Undef, Undef, NoDate,
                NoDate, "TRUE")
MonthlyRow == Row("gym", "monthly", StartDay - 40, "n", 1, Undef, NoDate,
                  NoDate, "TRUE")
InactiveRow == Row("old", "daily", StartDay - 10, "", Undef, Undef, NoDate,
                   NoDate, "FALSE")
EndedRow == Row("loan", "daily", StartDay - 10, "n", Undef, Undef,
                StartDay - 1, NoDate, "TRUE")

InitSheets == { <<DailyRow, MonthlyRow>>, <<InactiveRow, EndedRow>> }

\* row[13] === 'TRUE' || row[13] === 'true' || row[13] === '1'
ParseActive(cell) == cell \in {"TRUE", "true", "1"}

\* the object getRecurringTransactions builds from row number index + 2
RowToTemplate(z, today, row, index) ==
  [id |-> index + 2,
   description |-> row.description,
   category |-> row.category,
   subcategory |-> row.subcategory,
   amountEUR |-> row.amountEUR,
   amountUSD |-> row.amountUSD,
   account |-> row.account,
   notes |-> row.notes,
   frequency |-> IF row.frequency = "" THEN "monthly" ELSE row.frequency,
   dayOfMonth |-> row.dayOfMonth,
   dayOfWeek |-> row.dayOfWeek,
   startDate |-> row.startDate,
   endDate |-> row.endDate,
   lastProcessed |-> row.lastProcessed,
   nextDue |-> calculateNextDueDate(z, today, row.frequency, row.startDate,
                                    row.dayOfMonth, row.dayOfWeek,
                                    row.lastProcessed),
   active |-> ParseActive(row.active)]

\* rows.map(...) of getRecurringTransactions
MapRows(z, today, rows) ==
  [k \in 1..Len(rows) |-> RowToTemplate(z, today, rows[k], k - 1)]

\* a variant of the filter predicate that does not look at the active flag
IsDueIgnoringActive(z, today, transaction) ==
  /\ transaction.nextDue # NoDate
  /\ LocalDay(z, ParseDate(transaction.nextDue)) <= LocalDay(z, today)

\* a variant of the filter predicate without the test of nextDue
IsDueWithoutNextDueTest(z, today, transaction) ==
  /\ transaction.active
  /\ LocalDay(z, ParseDate(transaction.nextDue)) <= LocalDay(z, today)

\* the filter predicate of processDueRecurringTransactions; both dates are
\* moved to local midnight by setHours(0, 0, 0, 0) before they are compared
IsDue(z, today, transaction) ==
  /\ transaction.active
  /\ transaction.nextDue # NoDate
  /\ LocalDay(z, ParseDate(transaction.nextDue)) <= LocalDay(z, today)

selectDue(z, today, recurringTransactions) ==
  SelectSeq(recurringTransactions, LAMBDA t : IsDue(z, today, t))

\* transaction.amountEUR || '': a zero amount is written as an empty cell
EmptyIfFalsy(amount) == IF amount = 0 THEN Undef ELSE amount

\* a variant of the ledger row that is dated with the due date
LedgerRowDatedDue(today, t) ==
  [date |-> t.nextDue,
   description |-> t.description,
   category |-> t.category,
   subcategory |-> t.subcategory,
   amountEUR |-> EmptyIfFalsy(t.amountEUR),
   amountUSD |-> EmptyIfFalsy(t.amountUSD),
   account |-> t.account,
   notes |-> IF t.notes # "" THEN <<t.notes, "(Recurring:", t.frequency>>
             ELSE <<"Recurring:", t.frequency>>]

\* the Transaction object built by processRecurringTransaction, as the row
\* addTransaction appends to the Transactions sheet
LedgerRow(today, t) ==
  [date |-> today,
   description |-> t.description,
   category |-> t.category,
   subcategory |-> t.subcategory,
   amountEUR |-> EmptyIfFalsy(t.amountEUR),
   amountUSD |-> EmptyIfFalsy(t.amountUSD),
   account |-> t.account,
   notes |-> IF t.notes # "" THEN <<t.notes, "(Recurring:", t.frequency>>
             ELSE <<"Recurring:", t.frequency>>]

\* amounts above 100,000 are dropped when the Transactions sheet is read
SanitizeAmount(amount) ==
  IF amount # Undef /\ amount > 100000 THEN Undef ELSE amount

\* the Transaction getTransactions builds from a row of the Transactions
\* sheet; no column holds a recurringId, the property stays undefined
ReadLedgerRow(row) ==
  [date |-> row.date,
   description |-> row.description,
   category |-> row.category,
   subcategory |-> row.subcategory,
   amountEUR |-> SanitizeAmount(row.amountEUR),
   amountUSD |-> SanitizeAmount(row.amountUSD),
   account |-> row.account,
   notes |-> row.notes,
   recurringId |-> Undef]

\* PUT Recurring!L{row}:M{row} with values [[today, nextDueDate]]: columns
\* L and M of the sheet are EndDate and LastProcessed
UpdateScheduleCells(rows, id, today, nextDueDate) ==
  [rows EXCEPT ![id - 1] = [@ EXCEPT !.endDate = today,
                                     !.lastProcessed = nextDueDate]]

\* a variant of the toggle that also clears the end date of the row
UpdateActiveClearingEnd(rows, id, activeStatus) ==
  [rows EXCEPT ![id - 1] =
     [@ EXCEPT !.active = IF activeStatus THEN "TRUE" ELSE "FALSE",
               !.endDate = NoDate]]

\* PUT Recurring!N{row}:N{row} with the boolean literal
UpdateActiveCell(rows, id, activeStatus) ==
  [rows EXCEPT ![id - 1] =
     [@ EXCEPT !.active = IF activeStatus THEN "TRUE" ELSE "FALSE"]]

---------------------------------------------------------------------------
(* State.                                                                  *)

VARIABLES
  tz,       \* the browser's zone: -1, 0 or 1
  now,      \* the clock: the value of new Date()
  sheet,    \* the Recurring sheet: the rows from row 2 on
  ledger,   \* the Transactions sheet: the rows appended
  cache,    \* recurringTransactionsCache: [valid, rows]; ~valid is null
  proc,     \* the invocations of processDueRecurringTransactions
  tog,      \* the toggleRecurringTransactionStatus request in flight
  ops,      \* operations started so far
  failed,   \* history: a store request has failed
  overlap,  \* history: an invocation started while another was running
  hist,     \* history: for each ledger row, who appended it and from what
  calls,    \* history: the schedule calculations of the sequential driver
  form,     \* the state of RecurringTransactionFormModal
  screen    \* the state of the RecurringTransactions component

vars == <<tz, now, sheet, ledger, cache, proc, tog, ops, failed, overlap,
          hist, calls, form, screen>>

NullCache == [valid |-> FALSE, rows |-> <<>>]

\* an invocation: pc names the request it awaits; selAt is the instant at
\* which the filter ran (its today); due, i, count, today and nextDue are
\* the locals of the two methods; ret and count are what the last
\* invocation returned; base (history) is the length of the ledger when
\* the invocation started
NoInstant == [d |-> NoDate, h |-> 0]

IdleProc ==
  [pc |-> "idle", snap |-> <<>>, selAt |-> NoInstant, due |-> <<>>, i |-> 0,
   count |-> 0, today |-> NoDate, nextDue |-> NoDate, ret |-> "none",
   base |-> 0]

NoToggle == [pending |-> FALSE, id |-> 0, status |-> FALSE]

\* the template in the state of the form when the modal is opened on day
\* today: monthly, starting today, on today's day of the month
BlankTemplate(z, today) ==
  [description |-> "", frequency |-> "monthly", category |-> "",
   subcategory |-> "", startDate |-> LocalDay(z, today), amountEUR |-> Undef,
   amountUSD |-> Undef, account |-> "acct", notes |-> "",
   dayOfMonth |-> DateOf(LocalDay(z, today)), dayOfWeek |-> Undef,
   endDate |-> NoDate, lastProcessed |-> NoDate, active |-> TRUE]

\* the modal: isOpen, the template being edited, isSubmitting, error (""
\* is null), and the POST of addRecurringTransaction in flight: the row it
\* carries, or none
ClosedForm ==
  [isOpen |-> FALSE, recurringTransaction |-> <<>>, isSubmitting |-> FALSE,
   error |-> "", posting |-> <<>>]

\* the screen: processingDue; for the handleProcessDue that started
\* invocation p, what it awaits ("none" when it does not run, "batch" for
\* processDueRecurringTransactions, "load" and "resp" for the request of
\* loadData and its response) and the rows of that response; and (history)
\* the number of calls of onProcessDue
IdleScreen ==
  [processingDue |-> FALSE, run |-> [p \in Procs |-> "none"],
   snap |-> [p \in Procs |-> <<>>], onProcessDue |-> 0]

Init ==
  /\ tz \in {-1, 0, 1}
  /\ now = [d |-> StartDay, h |-> 1]
  /\ sheet \in InitSheets
  /\ ledger = <<>>
  /\ cache = NullCache
  /\ proc = [p \in Procs |-> IdleProc]
  /\ tog = NoToggle
  /\ ops = 0
  /\ failed = FALSE
  /\ overlap = FALSE
  /\ hist = <<>>
  /\ calls = <<>>
  /\ form = ClosedForm
  /\ screen = IdleScreen

---------------------------------------------------------------------------
(* The clock.                                                              *)

\* In a zone other than UTC the local date changes within the UTC day.
Tick ==
  /\ IF tz # 0 /\ now.h = 1
     THEN now' = [now EXCEPT !.h = 2]
     ELSE /\ now.d < StartDay + MaxDays
          /\ now' = [d |-> now.d + 1, h |-> 1]
  /\ UNCHANGED <<tz, sheet, ledger, cache, proc, tog, ops, failed, overlap, hist,
                 calls,
                 form, screen>>

---------------------------------------------------------------------------
(* processDueRecurringTransactions and processRecurringTransaction.        *)

\* The loop of processDueRecurringTransactions from item k on, up to the
\* next request: processRecurringTransaction builds the transaction of item
\* k with today = new Date().toISOString().split('T')[0] and awaits
\* addTransaction; past the last item the count is returned.
EnterItem(st, k, count) ==
  IF k <= Len(st.due)
  THEN [st EXCEPT !.pc = "app", !.i = k, !.count = count,
                  !.today = ToISODate(now), !.nextDue = NoDate]
  ELSE [IdleProc EXCEPT !.count = count, !.ret = "ok"]

\* after await getRecurringTransactions(): today, the filter, the loop
FilterAndLoop(st, recurringTransactions) ==
  EnterItem([st EXCEPT !.selAt = now,
                       !.due = selectDue(tz, now, recurringTransactions),
                       !.snap = <<>>],
            1, 0)

\* a variant of the failure that skips the item and goes on with the loop
SkipFailedItem(st) == EnterItem(st, st.i + 1, st.count)

\* the error leaves processDueRecurringTransactions through its catch
Throw(st) == [IdleProc EXCEPT !.ret = "error"]

\* The call: with a cache the list is at hand, without one the rows of
\* Recurring!A2:N are requested.  (The two invocations are interchangeable:
\* the second is used only while the first is in flight.)
CallProcessDue(p) ==
  /\ proc[p].pc = "idle"
  /\ \A q \in Procs : q < p => proc[q].pc # "idle"
  /\ ops < MaxOps
  /\ ops' = ops + 1
  /\ overlap' = (overlap \/ \E q \in Procs \ {p} : proc[q].pc # "idle")
  /\ LET st == [IdleProc EXCEPT !.base = Len(ledger)]
     IN  proc' = [proc EXCEPT ![p] =
                    IF cache.valid THEN FilterAndLoop(st, cache.rows)
                    ELSE [st EXCEPT !.pc = "get"]]
  /\ UNCHANGED <<tz, now, sheet, ledger, cache, tog, failed, hist,
                 calls, form>>

\* the call from a caller that is not modelled further
ProcessDueCall(p) == CallProcessDue(p) /\ UNCHANGED screen

\* the store answers the request for the rows
GetServe(p) ==
  /\ proc[p].pc = "get"
  /\ proc' = [proc EXCEPT ![p] = [@ EXCEPT !.pc = "resp", !.snap = sheet]]
  /\ UNCHANGED <<tz, now, sheet, ledger, cache, tog, ops, failed, overlap, hist,
                 calls,
                 form, screen>>

\* the request for the rows fails: getRecurringTransactions returns []
GetFail(p) ==
  /\ proc[p].pc = "get"
  /\ failed' = TRUE
  /\ proc' = [proc EXCEPT ![p] = FilterAndLoop(@, <<>>)]
  /\ UNCHANGED <<tz, now, sheet, ledger, cache, tog, ops, overlap, hist,
                 calls,
                 form, screen>>

\* the response arrives: the rows are mapped, cached and filtered
GetDone(p) ==
  /\ proc[p].pc = "resp"
  /\ LET recurringTransactions == MapRows(tz, now, proc[p].snap)
     IN  /\ cache' = [valid |-> TRUE, rows |-> recurringTransactions]
         /\ proc' = [proc EXCEPT ![p] = FilterAndLoop(@, recurringTransactions)]
  /\ UNCHANGED <<tz, now, sheet, ledger, tog, ops, failed, overlap, hist,
                 calls,
                 form, screen>>

\* a variant of AppendOk that puts the new row at the head of the sheet
AppendOkAtHead(p) ==
  /\ proc[p].pc = "app"
  /\ LET st == proc[p]
         t == st.due[st.i]
     IN  /\ ledger' = <<LedgerRow(st.today, t)>> \o ledger
         /\ hist' = <<[by |-> p, src |-> t.id, occ |-> t.nextDue,
                       active |-> t.active]>> \o hist
         /\ proc' = [proc EXCEPT ![p] =
              [st EXCEPT !.pc = "upd",
                         !.nextDue = calculateNextDueDate(tz, now,
                            t.frequency, t.startDate, t.dayOfMonth,
                            t.dayOfWeek, st.today)]]
  /\ UNCHANGED <<tz, now, sheet, cache, tog, ops, failed, overlap,
                 calls,
                 form, screen>>

\* addTransaction succeeds: the row is appended; then the next due date is
\* calculated with lastProcessed = today and the PUT of L:M is sent
AppendOk(p) ==
  /\ proc[p].pc = "app"
  /\ LET st == proc[p]
         t == st.due[st.i]
     IN  /\ ledger' = Append(ledger, LedgerRow(st.today, t))
         /\ hist' = Append(hist, [by |-> p, src |-> t.id, occ |-> t.nextDue,
                                  active |-> t.active])
         /\ proc' = [proc EXCEPT ![p] =
              [st EXCEPT !.pc = "upd",
                         !.nextDue = calculateNextDueDate(tz, now,
                            t.frequency, t.startDate, t.dayOfMonth,
                            t.dayOfWeek, st.today)]]
  /\ UNCHANGED <<tz, now, sheet, cache, tog, ops, failed, overlap,
                 calls,
                 form, screen>>

\* a variant of the failed append after which the schedule update is sent
AppendFailThenUpdate(p) ==
  /\ proc[p].pc = "app"
  /\ failed' = TRUE
  /\ LET st == proc[p]
         t == st.due[st.i]
     IN  proc' = [proc EXCEPT ![p] =
           [st EXCEPT !.pc = "upd",
                      !.nextDue = calculateNextDueDate(tz, now, t.frequency,
                         t.startDate, t.dayOfMonth, t.dayOfWeek, st.today)]]
  /\ UNCHANGED <<tz, now, sheet, ledger, cache, tog, ops, overlap, hist,
                 calls, form, screen>>

\* addTransaction fails: the error leaves processRecurringTransaction before
\* the schedule is calculated
AppendFail(p) ==
  /\ proc[p].pc = "app"
  /\ failed' = TRUE
  /\ proc' = [proc EXCEPT ![p] = Throw(@)]
  /\ UNCHANGED <<tz, now, sheet, ledger, cache, tog, ops, overlap, hist,
                 calls,
                 form, screen>>

\* the PUT succeeds: the cells are written, the cache is invalidated, the
\* count goes up and the loop goes on
UpdateOk(p) ==
  /\ proc[p].pc = "upd"
  /\ LET st == proc[p]
         t == st.due[st.i]
     IN  /\ sheet' = UpdateScheduleCells(sheet, t.id, st.today, st.nextDue)
         /\ cache' = NullCache
         /\ proc' = [proc EXCEPT ![p] = EnterItem(st, st.i + 1, st.count + 1)]
  /\ UNCHANGED <<tz, now, ledger, tog, ops, failed, overlap, hist,
                 calls,
                 form, screen>>

UpdateFail(p) ==
  /\ proc[p].pc = "upd"
  /\ failed' = TRUE
  /\ proc' = [proc EXCEPT ![p] = Throw(@)]
  /\ UNCHANGED <<tz, now, sheet, ledger, cache, tog, ops, overlap, hist,
                 calls,
                 form, screen>>

---------------------------------------------------------------------------
(* toggleRecurringTransactionStatus.                                       *)

ToggleCall(id, activeStatus) ==
  /\ ~tog.pending
  /\ ops < MaxOps
  /\ ops' = ops + 1
  /\ tog' = [pending |-> TRUE, id |-> id, status |-> activeStatus]
  /\ UNCHANGED <<tz, now, sheet, ledger, cache, proc, failed, overlap, hist,
                 calls,
                 form, screen>>

\* a variant of the successful toggle that leaves the cache as it is
ToggleOkKeepingCache ==
  /\ tog.pending
  /\ sheet' = UpdateActiveCell(sheet, tog.id, tog.status)
  /\ tog' = NoToggle
  /\ UNCHANGED <<tz, now, ledger, cache, proc, ops, failed, overlap, hist,
                 calls, form, screen>>

\* the PUT succeeds: the cell is written and the cache invalidated
ToggleOk ==
  /\ tog.pending
  /\ sheet' = UpdateActiveCell(sheet, tog.id, tog.status)
  /\ cache' = NullCache
  /\ tog' = NoToggle
  /\ UNCHANGED <<tz, now, ledger, proc, ops, failed, overlap, hist,
                 calls,
                 form, screen>>

ToggleFail ==
  /\ tog.pending
  /\ failed' = TRUE
  /\ tog' = NoToggle
  /\ UNCHANGED <<tz, now, sheet, ledger, cache, proc, ops, overlap, hist,
                 calls,
                 form, screen>>

---------------------------------------------------------------------------

Next ==
  \/ Tick
  \/ \E p \in Procs : ProcessDueCall(p)
  \/ \E p \in Procs : GetServe(p)
  \/ \E p \in Procs : GetFail(p)
  \/ \E p \in Procs : GetDone(p)
  \/ \E p \in Procs : AppendOk(p)
  \/ \E p \in Procs : AppendFail(p)
  \/ \E p \in Procs : UpdateOk(p)
  \/ \E p \in Procs : UpdateFail(p)
  \/ \E id \in 2..(Len(sheet) + 1), a \in BOOLEAN : ToggleCall(id, a)
  \/ ToggleOk
  \/ ToggleFail

Spec == Init /\ [][Next]_vars

---------------------------------------------------------------------------
(* addRecurringTransaction, and the operations of Spec together with it.   *)

\* the row addRecurringTransaction writes for a template: optional values
\* go through || '', so a dayOfMonth, dayOfWeek or amount of 0 is written
\* as an empty cell
TemplateToRow(t) ==
  [description |-> t.description, frequency |-> t.frequency,
   category |-> t.category, subcategory |-> t.subcategory,
   startDate |-> t.startDate,
   amountEUR |-> EmptyIfFalsy(t.amountEUR),
   amountUSD |-> EmptyIfFalsy(t.amountUSD),
   account |-> t.account, notes |-> t.notes,
   dayOfMonth |-> EmptyIfFalsy(t.dayOfMonth),
   dayOfWeek |-> EmptyIfFalsy(t.dayOfWeek),
   endDate |-> t.endDate, lastProcessed |-> t.lastProcessed,
   active |-> IF t.active THEN "TRUE" ELSE "FALSE"]

\* the template the form submits: weekly, on Sundays
NewTemplate ==
  [description |-> "club", frequency |-> "weekly", category |-> "cat",
   subcategory |-> "sub", startDate |-> StartDay - 3, amountEUR |-> 10,
   amountUSD |-> Undef, account |-> "acct", notes |-> "",
   dayOfMonth |-> Undef, dayOfWeek |-> 0, endDate |-> NoDate,
   lastProcessed |-> NoDate, active |-> TRUE]

\* the POST succeeds: the row is appended, the cache is invalidated
AddRecurringOk ==
  /\ ops < MaxOps
  /\ ops' = ops + 1
  /\ sheet' = Append(sheet, TemplateToRow(NewTemplate))
  /\ cache' = NullCache
  /\ UNCHANGED <<tz, now, ledger, proc, tog, failed, overlap, hist, calls,
                 form, screen>>

\* the POST fails: the error is rethrown
AddRecurringFail ==
  /\ ops < MaxOps
  /\ ops' = ops + 1
  /\ failed' = TRUE
  /\ UNCHANGED <<tz, now, sheet, ledger, cache, proc, tog, overlap, hist,
                 calls,
                 form, screen>>

\* invalidateRecurringTransactionsCache()
InvalidateCache ==
  /\ ops < MaxOps
  /\ ops' = ops + 1
  /\ cache' = NullCache
  /\ UNCHANGED <<tz, now, sheet, ledger, proc, tog, failed, overlap,
                 hist, calls, form, screen>>

NextAdd == Next \/ AddRecurringOk \/ AddRecurringFail \/ InvalidateCache

SpecAdd == Init /\ [][NextAdd]_vars

---------------------------------------------------------------------------
(* The same operations over a sheet that holds a row without a usable      *)
(* date: startDate and lastProcessed are empty or unparseable.             *)

NoAnchorRow == Row("broken", "daily", NoDate, "", Undef, Undef, NoDate, NoDate, "TRUE")

AnchorlessSheets == { <<NoAnchorRow, DailyRow>>, <<MonthlyRow, NoAnchorRow>> }

InitAnchorless ==
  /\ tz \in {-1, 0, 1}
  /\ now = [d |-> StartDay, h |-> 1]
  /\ sheet \in AnchorlessSheets
  /\ ledger = <<>>
  /\ cache = NullCache
  /\ proc = [p \in Procs |-> IdleProc]
  /\ tog = NoToggle
  /\ ops = 0
  /\ failed = FALSE
  /\ overlap = FALSE
  /\ hist = <<>>
  /\ calls = <<>>
  /\ form = ClosedForm
  /\ screen = IdleScreen

SpecAnchorless == InitAnchorless /\ [][Next]_vars

---------------------------------------------------------------------------
(* The sequential driver: one template, no failure, no concurrency.  The   *)
(* row is loaded (the map of getRecurringTransactions) or processed        *)
(* (processRecurringTransaction, both requests succeeding) at instants of  *)
(* a clock that jumps forward; each calculation is logged in calls.        *)

\* at most this many calls are made in one behaviour of the driver
MaxCalls == 2

Frequencies == {"daily", "weekly", "biweekly", "monthly", "quarterly",
                "yearly"}

CalcDaysOfMonth == {1, 15, 29, 31}

\* the days on which the driver starts
CalcDays ==
  { MakeDay(2024, 0, 10), MakeDay(2024, 0, 31), MakeDay(2024, 1, 29),
    MakeDay(2024, 11, 31) }

\* the times of day of the clock in zone z
Phases(z) == IF z = 0 THEN {1} ELSE {1, 2}

\* the anchor fields by frequency, as the creation form requires them
CalcAnchors(frequency) ==
  IF frequency \in {"monthly", "quarterly", "yearly"}
  THEN {[dom |-> d, dow |-> Undef] : d \in CalcDaysOfMonth}
  ELSE IF frequency \in {"weekly", "biweekly"}
  THEN {[dom |-> Undef, dow |-> w] : w \in 0..6}
  ELSE {[dom |-> Undef, dow |-> Undef]}

CalcInit ==
  /\ tz \in {-1, 0, 1}
  /\ \E d \in CalcDays, h \in Phases(tz) : now = [d |-> d, h |-> h]
  /\ \E f \in Frequencies, lp \in {NoDate, now.d - 20, now.d + 3} :
       \E a \in CalcAnchors(f) :
         sheet = <<Row("rent", f, now.d - 45, "", a.dom, a.dow, NoDate, lp,
                       "TRUE")>>
  /\ ledger = <<>>
  /\ cache = NullCache
  /\ proc = [p \in Procs |-> IdleProc]
  /\ tog = NoToggle
  /\ ops = 0
  /\ failed = FALSE
  /\ overlap = FALSE
  /\ hist = <<>>
  /\ calls = <<>>
  /\ form = ClosedForm
  /\ screen = IdleScreen

\* the instants the clock of the driver may jump to: now, the next day, or
\* the day the last calculation gave as next due
JumpTargets ==
  LET days == {now.d, now.d + 1} \cup
              (IF calls # <<>> /\ calls[Len(calls)].nextDue > now.d
               THEN {calls[Len(calls)].nextDue} ELSE {})
  IN  {t \in [d : days, h : Phases(tz)] : t = now \/ DateLt(now, t)}

\* the row is read at instant at: nextDue as getRecurringTransactions maps it
CalcLoad(at) ==
  /\ Len(calls) < MaxCalls
  /\ now' = at
  /\ calls' = Append(calls,
       [kind |-> "load", today |-> ToISODate(at),
        nextDue |-> RowToTemplate(tz, at, sheet[1], 0).nextDue])
  /\ UNCHANGED <<tz, sheet, ledger, cache, proc, tog, ops, failed, overlap,
                 hist,
                 form, screen>>

\* processRecurringTransaction on the loaded template at instant at
CalcProcess(at) ==
  /\ Len(calls) < MaxCalls
  /\ now' = at
  /\ LET t == RowToTemplate(tz, at, sheet[1], 0)
         today == ToISODate(at)
         nextDueDate == calculateNextDueDate(tz, at, t.frequency,
                          t.startDate, t.dayOfMonth, t.dayOfWeek, today)
     IN  /\ ledger' = Append(ledger, LedgerRow(today, t))
         /\ hist' = Append(hist, [by |-> 1, src |-> t.id, occ |-> t.nextDue,
                                  active |-> t.active])
         /\ sheet' = UpdateScheduleCells(sheet, t.id, today, nextDueDate)
         /\ calls' = Append(calls, [kind |-> "process", today |-> today,
                                    nextDue |-> nextDueDate])
  /\ UNCHANGED <<tz, cache, proc, tog, ops, failed, overlap,
                 form, screen>>

CalcNext ==
  \/ \E at \in JumpTargets : CalcLoad(at)
  \/ \E at \in JumpTargets : CalcProcess(at)

SpecCalc == CalcInit /\ [][CalcNext]_vars

---------------------------------------------------------------------------
(* The calculation alone: one row of the Recurring sheet, read once by the *)
(* map of getRecurringTransactions.  The inputs of calculateNextDueDate    *)
(* are the cells of the row, the clock and the zone; the loaded template   *)
(* is logged in calls.                                                     *)

\* frequency cells: the six known values, the empty cell, an unknown word
FnFrequencies == Frequencies \cup {"", "fortnightly"}

\* the days at which the row is read
FnDays ==
  { MakeDay(2024, 0, 10), MakeDay(2024, 0, 31), MakeDay(2024, 1, 29),
    MakeDay(2024, 11, 31), MakeDay(2025, 0, 30) }

\* the anchor cells: a day of the month, a day of the week, or neither
FnAnchors ==
  {[dom |-> d, dow |-> Undef] : d \in {Undef, 1, 15, 29, 30, 31}}
    \cup {[dom |-> Undef, dow |-> w] : w \in 0..6}

FnInit ==
  /\ tz \in {-1, 0, 1}
  /\ \E d \in FnDays, h \in Phases(tz) : now = [d |-> d, h |-> h]
  /\ \E f \in FnFrequencies, a \in FnAnchors,
        sd \in {NoDate, now.d - 45, now.d + 5},
        lp \in {NoDate, now.d - 20, now.d - 3, now.d + 3} :
       sheet = <<Row("rent", f, sd, "", a.dom, a.dow, NoDate, lp, "TRUE")>>
  /\ ledger = <<>>
  /\ cache = NullCache
  /\ proc = [p \in Procs |-> IdleProc]
  /\ tog = NoToggle
  /\ ops = 0
  /\ failed = FALSE
  /\ overlap = FALSE
  /\ hist = <<>>
  /\ calls = <<>>
  /\ form = ClosedForm
  /\ screen = IdleScreen

\* the row is mapped to a template
FnLoad ==
  /\ calls = <<>>
  /\ LET t == RowToTemplate(tz, now, sheet[1], 0)
     IN  calls' = <<[kind |-> "load", today |-> ToISODate(now),
                     nextDue |-> t.nextDue, frequency |-> t.frequency]>>
  /\ UNCHANGED <<tz, now, sheet, ledger, cache, proc, tog, ops, failed,
                 overlap, hist,
                 form, screen>>

FnNext == FnLoad

SpecFn == FnInit /\ [][FnNext]_vars

\* the anchor of the row: lastProcessed if it is a valid date, else startDate
AnchorOf(row) ==
  IF row.lastProcessed # NoDate THEN row.lastProcessed ELSE row.startDate

\* the base date of the calculation: the anchor, or today when the anchor is
\* before today
BaseOf(row, today) ==
  IF AnchorOf(row) < today THEN today ELSE AnchorOf(row)

---------------------------------------------------------------------------
(* RecurringTransactionFormModal: the creation form, its validation and    *)
(* the POST of addRecurringTransaction, together with the operations of    *)
(* Spec on the templates the form has created.                             *)

\* the values the inputs of the form are given
FormDescriptions == {"", "club"}
FormAmountsEUR == {Undef, 0, 10}
FormDaysOfMonth == {31}
FormDaysOfWeek == {0}

\* at most this many templates are created in one behaviour of the form
MaxTemplates == 1

\* the effect opening the modal: the template and the error are reset
OpenModal ==
  /\ ~form.isOpen
  /\ form' = [form EXCEPT !.isOpen = TRUE,
                          !.recurringTransaction = BlankTemplate(tz, now),
                          !.error = ""]
  /\ UNCHANGED <<tz, now, sheet, ledger, cache, proc, tog, ops, failed,
                 overlap, hist, calls, screen>>

\* the Cancel button: onClose.  (Nothing reads the template of a closed
\* modal, and opening resets it: it is not kept.)
CancelModal ==
  /\ form.isOpen
  /\ form' = [form EXCEPT !.isOpen = FALSE, !.recurringTransaction = <<>>]
  /\ UNCHANGED <<tz, now, sheet, ledger, cache, proc, tog, ops, failed,
                 overlap, hist, calls, screen>>

\* handleChange on the frequency select: both day fields are cleared, then
\* the one the frequency needs is set from new Date()
WithFrequency(z, today, t, value) ==
  [t EXCEPT !.frequency = value,
            !.dayOfMonth = IF value \in {"monthly", "quarterly", "yearly"}
                           THEN DateOf(LocalDay(z, today)) ELSE Undef,
            !.dayOfWeek = IF value \in {"weekly", "biweekly"}
                          THEN WeekDay(LocalDay(z, today)) ELSE Undef]

\* the inputs renderDayInput shows for the frequency, with their options
DayInputs(frequency) ==
  IF frequency \in {"monthly", "quarterly", "yearly"}
  THEN {<<"dayOfMonth", d>> : d \in FormDaysOfMonth}
  ELSE IF frequency \in {"weekly", "biweekly"}
  THEN {<<"dayOfWeek", w>> : w \in FormDaysOfWeek}
  ELSE {}

\* handleChange on the frequency select
ChangeFrequency(value) ==
  /\ form.isOpen
  /\ form' = [form EXCEPT !.recurringTransaction =
                WithFrequency(tz, now, @, value)]
  /\ UNCHANGED <<tz, now, sheet, ledger, cache, proc, tog, ops, failed,
                 overlap, hist, calls, screen>>

\* handleChange on an amount input: '' is undefined, else parseFloat.  (Only
\* the EUR amount is typed in.)
ChangeAmount(name, value) ==
  /\ form.isOpen
  /\ form' = [form EXCEPT !.recurringTransaction[name] = value]
  /\ UNCHANGED <<tz, now, sheet, ledger, cache, proc, tog, ops, failed,
                 overlap, hist, calls, screen>>

\* handleChange on the day select that is shown: parseInt of the option
ChangeDay(name, value) ==
  /\ form.isOpen
  /\ <<name, value>> \in DayInputs(form.recurringTransaction.frequency)
  /\ form' = [form EXCEPT !.recurringTransaction[name] = value]
  /\ UNCHANGED <<tz, now, sheet, ledger, cache, proc, tog, ops, failed,
                 overlap, hist, calls, screen>>

\* handleChange on the description input
ChangeDescription(value) ==
  /\ form.isOpen
  /\ form' = [form EXCEPT !.recurringTransaction.description = value]
  /\ UNCHANGED <<tz, now, sheet, ledger, cache, proc, tog, ops, failed,
                 overlap, hist, calls, screen>>

\* a variant of the validation that does not look at the amounts
ValidationErrorWithoutAmounts(t) ==
  IF t.description = "" \/ t.account = "" \/ t.startDate = NoDate
  THEN "Description, account, and start date are required"
  ELSE ""

\* the error handleSubmit sets for the template, "" when it sets none; an
\* amount of 0 and an empty string are falsy
ValidationError(t) ==
  IF t.description = "" \/ t.account = "" \/ t.startDate = NoDate
  THEN "Description, account, and start date are required"
  ELSE IF EmptyIfFalsy(t.amountEUR) = Undef /\ EmptyIfFalsy(t.amountUSD) = Undef
  THEN "At least one amount (EUR or USD) is required"
  ELSE IF t.frequency \in {"monthly", "quarterly", "yearly"}
          /\ t.dayOfMonth = Undef
  THEN "Day of month is required for monthly, quarterly, and yearly frequencies"
  ELSE IF t.frequency \in {"weekly", "biweekly"} /\ t.dayOfWeek = Undef
  THEN "Day of week is required for weekly and biweekly frequencies"
  ELSE ""

\* handleSubmit on a template that fails the validation: the error is set
\* and isSubmitting goes back to false
SubmitRejected ==
  /\ form.isOpen
  /\ ~form.isSubmitting
  /\ ValidationError(form.recurringTransaction) # ""
  /\ form' = [form EXCEPT !.error = ValidationError(form.recurringTransaction),
                          !.isSubmitting = FALSE]
  /\ UNCHANGED <<tz, now, sheet, ledger, cache, proc, tog, ops, failed,
                 overlap, hist, calls, screen>>

\* handleSubmit on a template that passes: addRecurringTransaction builds
\* the row and sends the POST
SubmitAccepted ==
  /\ form.isOpen
  /\ ~form.isSubmitting
  /\ ValidationError(form.recurringTransaction) = ""
  /\ Len(sheet) < MaxTemplates
  /\ form' = [form EXCEPT !.error = "",
                          !.isSubmitting = TRUE,
                          !.posting =
                            <<TemplateToRow(form.recurringTransaction)>>]
  /\ UNCHANGED <<tz, now, sheet, ledger, cache, proc, tog, ops, failed,
                 overlap, hist, calls, screen>>

\* the POST succeeds: the row is appended and the cache invalidated; then
\* onTransactionAdded, onClose and the finally of handleSubmit
PostOk ==
  /\ form.posting # <<>>
  /\ sheet' = Append(sheet, form.posting[1])
  /\ cache' = NullCache
  /\ form' = [form EXCEPT !.isOpen = FALSE, !.recurringTransaction = <<>>,
                          !.isSubmitting = FALSE, !.posting = <<>>]
  /\ UNCHANGED <<tz, now, ledger, proc, tog, ops, failed, overlap, hist,
                 calls, screen>>

\* the POST fails: the error is shown in the modal
PostFail ==
  /\ form.posting # <<>>
  /\ failed' = TRUE
  /\ form' = [form EXCEPT !.error = "API error", !.isSubmitting = FALSE,
                          !.posting = <<>>]
  /\ UNCHANGED <<tz, now, sheet, ledger, cache, proc, tog, ops, overlap,
                 hist, calls, screen>>

\* the day the form is used: 2025-03-02, a Sunday
FormDay == StartDay + 2

\* (no time passes, and at this time of day the zone east of UTC has the
\* date of UTC)
FormInit ==
  /\ tz \in {-1, 0}
  /\ now = [d |-> FormDay, h |-> 1]
  /\ sheet = <<>>
  /\ ledger = <<>>
  /\ cache = NullCache
  /\ proc = [p \in Procs |-> IdleProc]
  /\ tog = NoToggle
  /\ ops = 0
  /\ failed = FALSE
  /\ overlap = FALSE
  /\ hist = <<>>
  /\ calls = <<>>
  /\ form = ClosedForm
  /\ screen = IdleScreen

FormNext ==
  \/ OpenModal
  \/ CancelModal
  \/ \E value \in Frequencies : ChangeFrequency(value)
  \/ \E value \in FormAmountsEUR : ChangeAmount("amountEUR", value)
  \/ \E name \in {"dayOfMonth", "dayOfWeek"},
        value \in FormDaysOfMonth \cup FormDaysOfWeek :
       ChangeDay(name, value)
  \/ \E value \in FormDescriptions : ChangeDescription(value)
  \/ SubmitRejected
  \/ SubmitAccepted
  \/ PostOk
  \/ PostFail

SpecForm == FormInit /\ [][FormNext]_vars

---------------------------------------------------------------------------
(* The round trip of a template through the Recurring sheet: one template  *)
(* that passes the validation of the form is written by                    *)
(* addRecurringTransaction and read back by getRecurringTransactions.      *)

\* the days of the month and the end dates of the templates written
RoundTripDaysOfMonth == {1, 15, 31}
RoundTripEndDates == {NoDate, StartDay + 30}

\* the day fields of a template by frequency, as handleChange sets them
RoundTripAnchors(frequency) ==
  IF frequency \in {"monthly", "quarterly", "yearly"}
  THEN {[dom |-> d, dow |-> Undef] : d \in RoundTripDaysOfMonth}
  ELSE IF frequency \in {"weekly", "biweekly"}
  THEN {[dom |-> Undef, dow |-> w] : w \in 0..6}
  ELSE {[dom |-> Undef, dow |-> Undef]}

\* the templates written: every one passes the validation of handleSubmit
AcceptedTemplates ==
  { t \in UNION { [description : {"club"}, frequency : {f},
                   category : {"cat"}, subcategory : {"sub"},
                   startDate : {StartDay - 3},
                   amountEUR : {Undef, 10}, amountUSD : {Undef, 12},
                   account : {"acct"}, notes : {"", "n"},
                   dayOfMonth : {a.dom : a \in RoundTripAnchors(f)},
                   dayOfWeek : {a.dow : a \in RoundTripAnchors(f)},
                   endDate : RoundTripEndDates, lastProcessed : {NoDate},
                   active : BOOLEAN] : f \in Frequencies } :
      ValidationError(t) = "" }

\* addRecurringTransaction(t), the POST succeeding
AddTemplate(t) ==
  /\ sheet = <<>>
  /\ sheet' = Append(sheet, TemplateToRow(t))
  /\ cache' = NullCache
  /\ calls' = Append(calls, [kind |-> "add", t |-> t])
  /\ UNCHANGED <<tz, now, ledger, proc, tog, ops, failed, overlap, hist,
                 form, screen>>

\* getRecurringTransactions with an empty cache, the request succeeding
LoadTemplates ==
  /\ sheet # <<>>
  /\ ~cache.valid
  /\ cache' = [valid |-> TRUE, rows |-> MapRows(tz, now, sheet)]
  /\ calls' = Append(calls, [kind |-> "load", t |-> cache'.rows[1]])
  /\ UNCHANGED <<tz, now, sheet, ledger, proc, tog, ops, failed, overlap,
                 hist, form, screen>>

RoundTripInit ==
  /\ tz \in {-1, 0, 1}
  /\ now = [d |-> StartDay, h |-> 1]
  /\ sheet = <<>>
  /\ ledger = <<>>
  /\ cache = NullCache
  /\ proc = [p \in Procs |-> IdleProc]
  /\ tog = NoToggle
  /\ ops = 0
  /\ failed = FALSE
  /\ overlap = FALSE
  /\ hist = <<>>
  /\ calls = <<>>
  /\ form = ClosedForm
  /\ screen = IdleScreen

RoundTripNext ==
  \/ \E t \in AcceptedTemplates : AddTemplate(t)
  \/ LoadTemplates

SpecRoundTrip == RoundTripInit /\ [][RoundTripNext]_vars

\* the 14 fields of a template that have a column in the Recurring sheet
PersistedFields ==
  {"description", "frequency", "category", "subcategory", "startDate",
   "amountEUR", "amountUSD", "account", "notes", "dayOfMonth", "dayOfWeek",
   "endDate", "lastProcessed", "active"}

---------------------------------------------------------------------------
(* RecurringTransactions: the "Process Due Transactions" button.  The      *)
(* component is the only caller of processDueRecurringTransactions; the    *)
(* requests of the service are the actions of Spec.  A step of             *)
(* handleProcessDue that follows an await is taken after the step of the   *)
(* service that settles the awaited promise.                               *)

\* a variant of the click for a button that is never disabled
HandleProcessDueAlways(p) ==
  /\ screen.run[p] = "none"
  /\ screen' = [screen EXCEPT !.processingDue = TRUE, !.run[p] = "batch"]
  /\ CallProcessDue(p)

\* a click on the button, which is disabled while processingDue is set:
\* setProcessingDue(true), then processDueRecurringTransactions is called
HandleProcessDue(p) ==
  /\ ~screen.processingDue
  /\ screen.run[p] = "none"
  /\ screen' = [screen EXCEPT !.processingDue = TRUE, !.run[p] = "batch"]
  /\ CallProcessDue(p)

\* the end of handleProcessDue: onProcessDue() when the batch and loadData
\* are through, and in every case the finally with setProcessingDue(false)
Finish(p, ok) ==
  [screen EXCEPT !.processingDue = FALSE,
                 !.run[p] = "none",
                 !.snap[p] = <<>>,
                 !.onProcessDue = IF ok THEN @ + 1 ELSE @]

\* processDueRecurringTransactions has settled.  On an error the catch
\* shows the notification.  On a count loadData is awaited: with a cached
\* list getRecurringTransactions returns it, otherwise it requests the rows
BatchSettled(p) ==
  /\ screen.run[p] = "batch"
  /\ proc[p].pc = "idle"
  /\ screen' = IF proc[p].ret = "error" THEN Finish(p, FALSE)
               ELSE IF cache.valid THEN Finish(p, TRUE)
               ELSE [screen EXCEPT !.run[p] = "load"]
  /\ UNCHANGED <<tz, now, sheet, ledger, cache, proc, tog, ops, failed,
                 overlap, hist, calls, form>>

\* the store answers the request of loadData
LoadServe(p) ==
  /\ screen.run[p] = "load"
  /\ screen' = [screen EXCEPT !.run[p] = "resp", !.snap[p] = sheet]
  /\ UNCHANGED <<tz, now, sheet, ledger, cache, proc, tog, ops, failed,
                 overlap, hist, calls, form>>

\* the request of loadData fails: getRecurringTransactions returns [], so
\* loadData returns and handleProcessDue goes on
LoadFail(p) ==
  /\ screen.run[p] = "load"
  /\ failed' = TRUE
  /\ screen' = Finish(p, TRUE)
  /\ UNCHANGED <<tz, now, sheet, ledger, cache, proc, tog, ops, overlap,
                 hist, calls, form>>

\* the response arrives: the rows are mapped and cached, loadData returns
LoadDone(p) ==
  /\ screen.run[p] = "resp"
  /\ cache' = [valid |-> TRUE, rows |-> MapRows(tz, now, screen.snap[p])]
  /\ screen' = Finish(p, TRUE)
  /\ UNCHANGED <<tz, now, sheet, ledger, proc, tog, ops, failed, overlap,
                 hist, calls, form>>

ScreenInit ==
  /\ tz \in {-1, 0, 1}
  /\ now = [d |-> StartDay, h |-> 1]
  /\ sheet \in InitSheets
  /\ ledger = <<>>
  /\ cache = NullCache
  /\ proc = [p \in Procs |-> IdleProc]
  /\ tog = NoToggle
  /\ ops = 0
  /\ failed = FALSE
  /\ overlap = FALSE
  /\ hist = <<>>
  /\ calls = <<>>
  /\ form = ClosedForm
  /\ screen = IdleScreen

\* the steps that settle a request or continue after one
ScreenProgress ==
  \/ \E p \in Procs : GetServe(p)
  \/ \E p \in Procs : GetFail(p)
  \/ \E p \in Procs : GetDone(p)
  \/ \E p \in Procs : AppendOk(p)
  \/ \E p \in Procs : AppendFail(p)
  \/ \E p \in Procs : UpdateOk(p)
  \/ \E p \in Procs : UpdateFail(p)
  \/ \E p \in Procs : BatchSettled(p)
  \/ \E p \in Procs : LoadServe(p)
  \/ \E p \in Procs : LoadFail(p)
  \/ \E p \in Procs : LoadDone(p)

ScreenNext ==
  \/ Tick
  \/ \E p \in Procs : HandleProcessDue(p)
  \/ ScreenProgress

\* every request is answered, with a response or an error, and a settled
\* promise lets its continuation run
SpecScreen == ScreenInit /\ [][ScreenNext]_vars /\ WF_vars(ScreenProgress)

---------------------------------------------------------------------------
(* Properties.                                                             *)

\* no two ledger rows were made from the same occurrence (the same template
\* with the same nextDue at materialization)
NoDuplicateOccurrence ==
  \A i, j \in 1..Len(hist) :
    i < j => ~(hist[i].src = hist[j].src /\ hist[i].occ = hist[j].occ)

\* C1: when invocations of processDueRecurringTransactions overlap and no
\* store request fails, no due occurrence of a template gets two ledger rows
C1_AtMostOnceUnderContention == ~failed => NoDuplicateOccurrence

\* C2: when invocations do not overlap, whatever store requests fail, no due
\* occurrence of a template gets two ledger rows
C2_ExactlyOnceUnderFailure == ~overlap => NoDuplicateOccurrence

\* C3: a template whose active flag is false is never selected by the
\* filter and no ledger row is ever made from one
C3_InactiveNeverSelected ==
  /\ \A p \in Procs : \A k \in 1..Len(proc[p].due) : proc[p].due[k].active
  /\ \A k \in 1..Len(hist) : hist[k].active

\* an invocation has just filtered a list that holds an inactive template
\* whose nextDue has arrived, and has selected another template of the list
C3_Witness ==
  \E p \in Procs :
    /\ proc[p].pc = "app" /\ proc[p].selAt = now /\ cache.valid
    /\ \E k \in 1..Len(cache.rows) :
         /\ ~cache.rows[k].active
         /\ cache.rows[k].nextDue # NoDate
         /\ LocalDay(tz, ParseDate(cache.rows[k].nextDue)) <= LocalDay(tz, now)
         /\ \A j \in 1..Len(proc[p].due) :
              proc[p].due[j].id # cache.rows[k].id

\* C4: a template whose endDate is present and strictly before today (the
\* today of the filter) is never selected
C4_EndedNeverSelected ==
  \A p \in Procs : \A k \in 1..Len(proc[p].due) :
    proc[p].due[k].endDate # NoDate =>
      proc[p].due[k].endDate >= LocalDay(tz, proc[p].selAt)

\* C5: when processRecurringTransaction completes, the persisted
\* lastProcessed of the template is today, and the template read back has
\* the nextDue that calculateNextDueDate gives with lastProcessed = today
C5_ScheduleWriteBack ==
  [][\A p \in Procs :
       UpdateOk(p) =>
         LET st == proc[p]
             t == st.due[st.i]
             row == sheet'[t.id - 1]
         IN  /\ row.lastProcessed = st.today
             /\ RowToTemplate(tz, now, row, t.id - 2).nextDue
                  = calculateNextDueDate(tz, now, t.frequency, t.startDate,
                                         t.dayOfMonth, t.dayOfWeek, st.today)
    ]_vars

\* the ledger rows an invocation has appended since it started
RowsOfRun(p, base) == {k \in (base + 1)..Len(hist) : hist[k].by = p}

\* C6: an invocation that returns a count has selected exactly count
\* templates and appended exactly count ledger rows, one per selected
\* template, each dated with a date of the run (today, when the date has not
\* changed during the run)
C6_BatchCount ==
  [][\A p \in Procs :
       (proc'[p] # proc[p] /\ proc'[p].pc = "idle" /\ proc'[p].ret = "ok") =>
         LET st == proc[p]
             selected == IF st.pc = "upd" THEN st.due ELSE <<>>
             rows == RowsOfRun(p, IF st.pc = "upd" THEN st.base ELSE Len(hist))
         IN  /\ proc'[p].count = Len(selected)
             /\ Cardinality(rows) = Len(selected)
             /\ \A k \in 1..Len(selected) :
                  \E r \in rows :
                    /\ hist[r].src = selected[k].id
                    /\ Cardinality({q \in rows : q < r}) = k - 1
                    /\ ledger[r].description = selected[k].description
                    /\ st.selAt.d <= ledger[r].date
                    /\ ledger[r].date <= now.d
    ]_vars

\* an invocation returned 2 after appending the two rows of the ledger
C6_Witness ==
  \E p \in Procs :
    /\ proc[p].pc = "idle" /\ proc[p].ret = "ok" /\ proc[p].count = 2
    /\ Len(ledger) = 2
    /\ ledger[1].date = now.d /\ ledger[2].date = now.d
    /\ hist[1].src # hist[2].src

\* C7: every calculated next due date is defined and strictly later than
\* today, the UTC date of the calculation
C7_NextDueAfterToday ==
  \A k \in 1..Len(calls) :
    calls[k].nextDue # NoDate /\ calls[k].nextDue > calls[k].today

\* a template was processed and then read back, and each time the next due
\* date was later than the day of the call
C7_Witness ==
  /\ Len(calls) = 2
  /\ calls[1].kind = "process" /\ calls[2].kind = "load"
  /\ calls[1].nextDue > calls[1].today
  /\ calls[2].nextDue > calls[2].today

C9_ProcessFrame ==
  [][\A p \in Procs :
       /\ UpdateOk(p) =>
            LET id == proc[p].due[proc[p].i].id
            IN  sheet' = [sheet EXCEPT ![id - 1].lastProcessed =
                                          sheet'[id - 1].lastProcessed]
       /\ (AppendOk(p) \/ AppendFail(p) \/ UpdateFail(p)) => sheet' = sheet
    ]_vars

\* C10: a toggle that succeeds sets the active flag of the identified row
\* and changes nothing else: no other cell, no other row, not the nextDue
\* the row is read with; a toggle that is sent or fails changes no cell.
\* While nothing has been processed, a row whose flag is back at its
\* original value is the original row.
C10_ToggleFrame ==
  /\ [][/\ ToggleOk =>
             LET r == tog.id - 1
             IN  /\ ParseActive(sheet'[r].active) = tog.status
                 /\ sheet' = [sheet EXCEPT ![r].active = sheet'[r].active]
                 /\ RowToTemplate(tz, now, sheet'[r], r - 1).nextDue
                      = RowToTemplate(tz, now, sheet[r], r - 1).nextDue
        /\ (ToggleFail \/ \E id \in 2..(Len(sheet) + 1), a \in BOOLEAN :
                            ToggleCall(id, a)) => sheet' = sheet
       ]_vars
  /\ [](ledger = <<>> =>
          \E s0 \in InitSheets :
            /\ Len(s0) = Len(sheet)
            /\ \A r \in 1..Len(sheet) :
                 /\ sheet[r] = [s0[r] EXCEPT !.active = sheet[r].active]
                 /\ sheet[r].active \in {"TRUE", "FALSE"})

\* the first row has been deactivated and nothing else of it has changed
C10_Witness ==
  /\ ~tog.pending /\ ~failed
  /\ \E s0 \in InitSheets :
       /\ s0[1].active = "TRUE"
       /\ sheet = [s0 EXCEPT ![1].active = "FALSE"]

\* C11: for monthly with dayOfMonth = d the next due date is the day
\* min(d, days in the month) of the calendar month that follows the month of
\* the base date
C11_MonthlyClamp ==
  \A k \in 1..Len(calls) :
    LET row == sheet[1]
        base == BaseOf(row, calls[k].today)
        y == YearOf(MakeDay(YearOf(base), MonthOf(base) + 1, 1))
        m == MonthOf(MakeDay(YearOf(base), MonthOf(base) + 1, 1))
    IN  (/\ row.frequency = "monthly" /\ row.dayOfMonth # Undef
         /\ AnchorOf(row) # NoDate)
          => calls[k].nextDue =
               MakeDay(y, m, Min(row.dayOfMonth, getDaysInMonth(y, m)))

\* C12: for weekly (biweekly) with dayOfWeek = w the next due date is the
\* first date on or after base + 7 (base + 14) days whose weekday is w
C12_WeeklySnap ==
  \A k \in 1..Len(calls) :
    LET row == sheet[1]
        base == BaseOf(row, calls[k].today)
        n == IF row.frequency = "weekly" THEN 7 ELSE 14
    IN  (/\ row.frequency \in {"weekly", "biweekly"} /\ row.dayOfWeek # Undef
         /\ AnchorOf(row) # NoDate)
          => /\ WeekDay(calls[k].nextDue) = row.dayOfWeek
             /\ base + n <= calls[k].nextDue
             /\ calls[k].nextDue <= base + n + 6

\* C13: when the anchor is strictly before today the next due date is the
\* one calculated for an anchor equal to today, however far back the anchor
C13_TodayCollapse ==
  \A k \in 1..Len(calls) :
    LET row == sheet[1]
    IN  (AnchorOf(row) # NoDate /\ AnchorOf(row) < calls[k].today)
          => calls[k].nextDue =
               calculateNextDueDate(tz, now, row.frequency, calls[k].today,
                                    row.dayOfMonth, row.dayOfWeek, NoDate)

\* a row last processed twenty days ago has been read
C13_Witness ==
  /\ Len(calls) = 1
  /\ sheet[1].lastProcessed = calls[1].today - 20
  /\ calls[1].nextDue > calls[1].today

\* C14: for a frequency cell that is empty or unknown the next due date is
\* the one calculated for monthly with the same other inputs, and it is the
\* one calculated for the frequency the loaded template reports
C14_UnknownAsMonthly ==
  \A k \in 1..Len(calls) :
    LET row == sheet[1]
    IN  row.frequency \notin Frequencies
          => /\ calls[k].nextDue =
                  calculateNextDueDate(tz, now, "monthly", row.startDate,
                                       row.dayOfMonth, row.dayOfWeek,
                                       row.lastProcessed)
             /\ calls[k].nextDue =
                  calculateNextDueDate(tz, now, calls[k].frequency,
                                       row.startDate, row.dayOfMonth,
                                       row.dayOfWeek, row.lastProcessed)

\* the row of template id has no valid startDate and no valid lastProcessed
HasNoAnchor(id) ==
  sheet[id - 1].startDate = NoDate /\ sheet[id - 1].lastProcessed = NoDate

\* C15: a template without a valid anchor date is loaded with an undefined
\* nextDue, is never selected and never gets a ledger row, and no
\* invocation ends in an error unless a store request has failed
C15_InvalidAnchorNeverDue ==
  /\ cache.valid =>
       \A r \in 1..Len(cache.rows) :
         HasNoAnchor(cache.rows[r].id) => cache.rows[r].nextDue = NoDate
  /\ \A p \in Procs : \A k \in 1..Len(proc[p].due) :
       ~HasNoAnchor(proc[p].due[k].id)
  /\ \A k \in 1..Len(hist) : ~HasNoAnchor(hist[k].src)
  /\ ~failed => \A p \in Procs : proc[p].ret # "error"

\* on the second day an invocation over a list with an anchorless template
\* has returned 1: the other template of the list got its ledger row
C15_Witness ==
  /\ now.d > StartDay
  /\ \E p \in Procs :
       proc[p].pc = "idle" /\ proc[p].ret = "ok" /\ proc[p].count = 1
  /\ Len(hist) = 1 /\ ~HasNoAnchor(hist[1].src)
  /\ \E r \in 1..Len(sheet) : HasNoAnchor(r + 1) /\ sheet[r].active = "TRUE"

\* C16: a monthly, quarterly or yearly row without dayOfMonth, or a weekly
\* or biweekly row without dayOfWeek, is loaded without a next due date
C16_MissingAnchorNotScheduled ==
  \A k \in 1..Len(calls) :
    LET row == sheet[1]
    IN  (\/ /\ row.frequency \in {"monthly", "quarterly", "yearly"}
            /\ row.dayOfMonth = Undef
         \/ /\ row.frequency \in {"weekly", "biweekly"}
            /\ row.dayOfWeek = Undef)
          => calls[k].nextDue = NoDate

\* C17: a store request of an invocation that fails ends the invocation
\* with an error; no count is returned
C17_PersistenceErrorSurfaced ==
  [][\A p \in Procs :
       (GetFail(p) \/ AppendFail(p) \/ UpdateFail(p))
         => proc'[p].pc = "idle" /\ proc'[p].ret = "error"
    ]_vars

\* C18: when an invocation fails after some templates were processed, the
\* outcome it gives its caller holds the number processed before the failure
C18_FailedBatchReportsProgress ==
  [][\A p \in Procs :
       (AppendFail(p) \/ UpdateFail(p))
         => proc'[p].ret = "error" /\ proc'[p].count = proc[p].count
    ]_vars

\* every ledger row, read back, is dated within the run of the model and
\* has the description, category, subcategory, amounts and account of the
\* template it was made from and the notes with the frequency annotation
LedgerContentCopied ==
  \A k \in 1..Len(ledger) :
    LET t == RowToTemplate(tz, now, sheet[hist[k].src - 1], hist[k].src - 2)
        e == ReadLedgerRow(ledger[k])
    IN  /\ StartDay <= e.date /\ e.date <= now.d
        /\ e.description = t.description
        /\ e.category = t.category
        /\ e.subcategory = t.subcategory
        /\ e.amountEUR = t.amountEUR
        /\ e.amountUSD = t.amountUSD
        /\ e.account = t.account
        /\ e.notes = IF t.notes # ""
                     THEN <<t.notes, "(Recurring:", t.frequency>>
                     ELSE <<"Recurring:", t.frequency>>

\* C19: every ledger row is dated with the day of materialization, copies
\* the template, has the annotated notes, and carries the id of the
\* template it was made from
C19_LedgerEntryContent ==
  /\ LedgerContentCopied
  /\ \A k \in 1..Len(ledger) :
       ReadLedgerRow(ledger[k]).recurringId = hist[k].src

\* C20: the ledger is append-only: a step either leaves it as it is, or is
\* the ledger append of processRecurringTransaction and adds one row after
\* the rows it holds, which stay as they are
C20_LedgerAppendOnly ==
  [][IF \E p \in Procs : AppendOk(p)
     THEN /\ Len(ledger') = Len(ledger) + 1
          /\ SubSeq(ledger', 1, Len(ledger)) = ledger
     ELSE ledger' = ledger
    ]_vars

\* a template was added, another was toggled or processed, and the ledger
\* holds a row
C20_Witness ==
  /\ Len(sheet) = 3
  /\ Len(ledger) >= 1
  /\ \A p \in Procs : proc[p].pc = "idle"

\* C21: at every due selection, the nextDue of a selected template is the
\* one recomputed at that moment from the row the sheet holds for it
C21_DueRecomputed ==
  [][\A p \in Procs :
       (ProcessDueCall(p) \/ GetDone(p)) =>
         \A k \in 1..Len(proc'[p].due) :
           LET t == proc'[p].due[k]
           IN  t.nextDue = RowToTemplate(tz, now, sheet[t.id - 1], t.id - 2).nextDue
    ]_vars

\* C22: a template that passes the validation of the form, written by
\* addRecurringTransaction and read back by getRecurringTransactions, has
\* the same value in each of its 14 persisted fields
C22_RoundTrip ==
  (Len(calls) = 2) =>
    \A f \in PersistedFields : calls[2].t[f] = calls[1].t[f]

\* the day fields of a template match its frequency: the day of the month
\* alone for monthly, quarterly and yearly, the day of the week alone for
\* weekly and biweekly, neither for daily
AnchorsMatchFrequency(t) ==
  IF t.frequency \in {"monthly", "quarterly", "yearly"}
  THEN t.dayOfMonth # Undef /\ t.dayOfWeek = Undef
  ELSE IF t.frequency \in {"weekly", "biweekly"}
  THEN t.dayOfWeek # Undef /\ t.dayOfMonth = Undef
  ELSE t.dayOfMonth = Undef /\ t.dayOfWeek = Undef

\* C23: every template created through the form, as getRecurringTransactions
\* loads it from the sheet, has exactly the day field its frequency needs
C23_AnchorInvariant ==
  \A k \in 1..Len(sheet) :
    AnchorsMatchFrequency(RowToTemplate(tz, now, sheet[k], k - 1))

\* the template has what creation requires: description, account and start
\* date, one of the two amounts, and the day field of its frequency
IsComplete(t) ==
  /\ t.description # "" /\ t.account # "" /\ t.startDate # NoDate
  /\ t.amountEUR # Undef \/ t.amountUSD # Undef
  /\ t.frequency \in {"monthly", "quarterly", "yearly"} => t.dayOfMonth # Undef
  /\ t.frequency \in {"weekly", "biweekly"} => t.dayOfWeek # Undef

\* C24: a submit of a template that lacks a required field sends nothing,
\* leaves the modal open with an error and isSubmitting false; and every row
\* that reaches the sheet has description, account, start date and an amount
C24_CreationValidation ==
  [][/\ ((SubmitRejected \/ SubmitAccepted)
           /\ ~IsComplete(form.recurringTransaction)) =>
          /\ sheet' = sheet
          /\ form'.posting = <<>>
          /\ form'.isOpen
          /\ form'.error # ""
          /\ ~form'.isSubmitting
     /\ sheet' # sheet =>
          LET row == sheet'[Len(sheet')]
          IN  /\ row.description # "" /\ row.account # ""
              /\ row.startDate # NoDate
              /\ row.amountEUR # Undef \/ row.amountUSD # Undef
    ]_vars

\* a submit without an amount has been rejected, and nothing was written
C24_Witness ==
  /\ form.isOpen
  /\ form.recurringTransaction.description # ""
  /\ form.recurringTransaction.amountEUR = Undef
  /\ form.error = "At least one amount (EUR or USD) is required"
  /\ ~form.isSubmitting
  /\ form.posting = <<>>
  /\ sheet = <<>>

\* C25: a list fetched from the sheet and filtered at once has no due
\* template: the invocation that fetched it selects nothing
C25_FreshNeverDue ==
  [][\A p \in Procs : GetDone(p) => proc'[p].due = <<>>]_vars

\* C26: when a request of item k of a batch fails, the invocation ends in an
\* error at that step; the step leaves the ledger and the sheet as they are,
\* so items 1..k-1 keep their ledger rows and their written schedule cells;
\* the invocation has appended rows for items 1..k-1 (and for item k when
\* its append had succeeded) and for no later item, and, when no other
\* invocation ran, the schedule cells of items k+1..n are as they were loaded
C26_BatchAbort ==
  [][\A p \in Procs :
       (AppendFail(p) \/ UpdateFail(p)) =>
         LET st == proc[p]
             k == st.i
             done == IF st.pc = "upd" THEN k ELSE k - 1
             rows == RowsOfRun(p, st.base)
         IN  /\ proc'[p].pc = "idle" /\ proc'[p].ret = "error"
             /\ ledger' = ledger /\ sheet' = sheet /\ hist' = hist
             /\ Cardinality(rows) = done
             /\ \A j \in 1..done : \E r \in rows : hist[r].src = st.due[j].id
             /\ \A j \in 1..(k - 1) :
                  sheet'[st.due[j].id - 1].lastProcessed # NoDate
             /\ ~overlap =>
                  \A j \in (k + 1)..Len(st.due) :
                    LET row == sheet'[st.due[j].id - 1]
                    IN  /\ row.lastProcessed = st.due[j].lastProcessed
                        /\ row.endDate = st.due[j].endDate
    ]_vars

\* a batch of two due templates has failed on the second: the first has its
\* ledger row and its schedule cells, the second has neither
C26_Witness ==
  /\ ops = 1
  /\ \E p \in Procs : proc[p].pc = "idle" /\ proc[p].ret = "error"
  /\ Len(ledger) = 1
  /\ sheet[1].lastProcessed # NoDate
  /\ sheet[2].lastProcessed = NoDate

\* C27: the schedule update of an item is sent only at the step at which
\* its ledger row has been appended; a failed append changes neither the
\* sheet nor the cache, sends no update and ends the invocation in an error
C27_StepOrder ==
  [][\A p \in Procs :
       /\ (proc'[p].pc = "upd" /\ proc'[p] # proc[p]) =>
            /\ proc[p].pc = "app"
            /\ ledger' = Append(ledger,
                                LedgerRow(proc[p].today, proc[p].due[proc[p].i]))
            /\ sheet' = sheet
       /\ (sheet' # sheet /\ proc'[p] # proc[p]) => proc[p].pc = "upd"
       /\ AppendFail(p) =>
            /\ sheet' = sheet /\ cache' = cache /\ ledger' = ledger
            /\ proc'[p].pc = "idle" /\ proc'[p].ret = "error"
    ]_vars

\* an append has failed with the list in the cache: nothing was appended,
\* no schedule cell was written and the cache still holds the list
C27_Witness ==
  /\ ops = 1
  /\ \E p \in Procs : proc[p].pc = "idle" /\ proc[p].ret = "error"
  /\ ledger = <<>>
  /\ \A k \in 1..Len(sheet) : sheet[k].lastProcessed = NoDate
  /\ cache.valid

\* C28: every successful write of the Recurring sheet (a template added, a
\* schedule updated, a status toggled) and every explicit invalidation
\* leaves the cache empty; with an empty cache the list is requested from
\* the sheet, the request is answered with the rows the sheet holds, and
\* when the sheet has not been written since, the list cached and filtered
\* is the list of the sheet's current templates
C28_InvalidationOnWrite ==
  [][/\ (sheet' # sheet \/ InvalidateCache) => cache' = NullCache
     /\ \A p \in Procs :
          /\ (ProcessDueCall(p) /\ ~cache.valid) => proc'[p].pc = "get"
          /\ GetServe(p) => proc'[p].snap = sheet
          /\ (GetDone(p) /\ proc[p].snap = sheet) =>
               /\ cache'.valid
               /\ cache'.rows = MapRows(tz, now, sheet)
               /\ proc'[p].due = selectDue(tz, now, MapRows(tz, now, sheet))
    ]_vars

\* after a template was added the list has been fetched again: the cache
\* holds the three templates of the sheet
C28_Witness ==
  /\ Len(sheet) = 3
  /\ cache.valid
  /\ cache.rows = MapRows(tz, now, sheet)
  /\ \A p \in Procs : proc[p].pc = "idle"
  /\ ~tog.pending

\* C29: whenever the cache holds a list and no write is in flight, the
\* list has one template per row of the sheet, with the persisted fields of
\* that row
C29_CacheCoherent ==
  (/\ cache.valid
   /\ ~tog.pending
   /\ \A p \in Procs : proc[p].pc \notin {"app", "upd"}) =>
    /\ Len(cache.rows) = Len(sheet)
    /\ \A k \in 1..Len(sheet) :
         \A f \in PersistedFields :
           cache.rows[k][f] = RowToTemplate(tz, now, sheet[k], k - 1)[f]

\* the invocations of handleProcessDue that have not reached their finally
Handling == {p \in Procs : screen.run[p] # "none"}

\* C30: processingDue is set exactly while a handleProcessDue runs, at most
\* one runs at a time and every running batch is its batch; onProcessDue is
\* called only by a handleProcessDue whose batch returned a count; and
\* processingDue, once set, is reset
C30_ProcessingFlag ==
  /\ [](screen.processingDue <=> Handling # {})
  /\ [](Cardinality(Handling) <= 1)
  /\ [](\A p \in Procs : proc[p].pc # "idle" => screen.run[p] = "batch")
  /\ [][screen'.onProcessDue # screen.onProcessDue =>
          \E p \in Handling : proc[p].pc = "idle" /\ proc[p].ret = "ok"]_vars
  /\ (screen.processingDue ~> ~screen.processingDue)

\* a batch has appended a ledger row, the list was loaded again,
\* onProcessDue was called and the button is enabled again
C30_Witness ==
  /\ ledger # <<>>
  /\ screen.onProcessDue = 1
  /\ ~screen.processingDue
  /\ cache.valid

\* a run of invocations that neither overlap nor meet a failed request makes
\* no duplicate
SequentialNoFailureNoDuplicate ==
  (~overlap /\ ~failed) => NoDuplicateOccurrence

====
